---- MODULE Spec2Model ----
(***************************************************************************)
(* Asynchronous payment gateway: idempotent intake (routes/payments.js),   *)
(* the payment processor and the webhook dispatcher (jobs/paymentQueue.js),*)
(* the webhook subscription routes (routes/webhooks.js) and the PostgreSQL *)
(* tables they share.                                                      *)
(*                                                                         *)
(* The store is PostgreSQL at READ COMMITTED: every statement of a         *)
(* transaction reads the committed rows plus the transaction's own writes, *)
(* and a transaction's writes become visible to others at COMMIT.  A       *)
(* handler is therefore modelled statement by statement; its uncommitted   *)
(* writes live in the handler's own record until its COMMIT step.          *)
(***************************************************************************)
EXTENDS Integers, FiniteSets, Sequences, TLC

(* ------------------------------ bounds --------------------------------- *)
\* number of POST /payments requests in a run
MaxReqs == 2
\* number of POST /payments/:id/refund requests in a run
MaxRefReqs == 2
\* number of processPayment invocations in a run (deliveries of all jobs)
MaxAttempts == 2
\* number of webhook subscriptions that can be registered in a run
MaxWebhooks == 1

\* number of processWebhookEvent invocations running at a time
MaxWorkers == 2

Reqs == 1..MaxReqs
RefReqs == 1..MaxRefReqs
Attempts == 1..MaxAttempts
WebhookIds == 1..MaxWebhooks
Workers == 1..MaxWorkers

(* ------------------------------ inputs --------------------------------- *)
\* absent Idempotency-Key header (undefined, falsy)
NoKey == ""
ClientKeys == {"K1", "K2"}
\* uuidv4(): a value no other call returns and no client sends
uuidv4(n) == <<"uuid-1", "uuid-2", "uuid-3", "uuid-4", "uuid-5">>[n]

\* request bodies of POST /payments; amount 0 stands for a missing amount
Bodies ==
  { [amount |-> 10, currency |-> "USD", customer_email |-> "a@b.c"],
    [amount |-> 0,  currency |-> "USD", customer_email |-> "a@b.c"],
    [amount |-> 10, currency |-> "USD", customer_email |-> ""],
    [amount |-> 10, currency |-> "US",  customer_email |-> "a@b.c"] }

\* refund amounts a client may send; 0 stands for an omitted amount
RefundAmounts == {0, 6, 11, -5}

\* Idempotency-Key headers and payment ids of refund requests; payment 2
\* does not exist when only the first payment was created
RefundKeys == {NoKey, "K1"}
RefundIds == {1, 2}

EventTypes == {"payment.completed", "payment.failed", "refund.created"}
\* events arrays a client may register
EventSets == { {"payment.completed", "payment.failed"}, {"refund.created"} }

(* ------------------------------ state ---------------------------------- *)
VARIABLES
  payments,          \* table payments: id -> committed row
  idempotency_keys,  \* table idempotency_keys: key -> committed row
  refunds,           \* table refunds: id -> committed row
  webhooks,          \* table webhooks: id -> committed row
  webhook_events,    \* table webhook_events: id -> committed row
  paymentQueue,      \* Bull queue 'payments': jobId -> job
  req,               \* POST /payments handlers
  ref,               \* POST /payments/:id/refund handlers
  att,               \* processPayment invocations
  registered,        \* number of subscriptions registered so far
  webhookQueue,      \* Bull queue 'webhooks': jobId -> job
  inv,               \* processWebhookEvent invocations
  http,              \* event id -> the HTTP POSTs made for it (history)
  polled,            \* the last tick: the rows it passed to webhookQueue.add,
                     \* those of them a worker was holding, and the pending
                     \* rows it left for later (history)
  call,              \* a call of verifyWebhookSignature and its result
  loop               \* a call of sendWebhookWithRetry: its locals and result

vars == <<payments, idempotency_keys, refunds, webhooks, webhook_events,
          paymentQueue, req, ref, att, registered, webhookQueue, inv, http,
          polled, call, loop>>

NoBody == [none |-> TRUE]
NoResponse == [status |-> 0, body |-> NoBody]
Response(code, b) == [status |-> code, body |-> b]
ErrorBody(msg) == [error |-> msg]

\* Response bodies are JSON values (records).  The stored response goes
\* through JSON.stringify and a JSONB column, the direct one through
\* res.json: both carry the same members and values.

\* rows of payments whose idempotency_key is k, as the SELECT of a
\* transaction sees them (committed rows)
PaymentsByKey(k) == {p \in DOMAIN payments : payments[p].idempotency_key = k}

\* f extended or overwritten at k
Put(f, k, v) == [x \in (DOMAIN f) \cup {k} |-> IF x = k THEN v ELSE f[x]]

(* --------------------- POST /payments (payments.js) -------------------- *)
IdleReq == [pc |-> "idle", header |-> NoKey, body |-> NoBody,
            idempotencyKey |-> NoKey, response |-> NoResponse,
            txOpen |-> FALSE, after201 |-> NoBody, fault |-> FALSE]

\* the 201 bodies already returned for client key k
Returned201(k) ==
  {req[q].response.body : q \in {q \in Reqs : /\ req[q].header = k
                                               /\ req[q].response.status = 201}}

\* a client sends POST /payments; the request reaches the router.
\* after201 remembers a body already returned with 201 for the same key
\* when the request arrives, and fault that the queue or the store rejected
\* a call of the request (history only, not read by the handler)
PayStart(r, k, b) ==
  /\ req[r].pc = "idle"
  /\ \A q \in Reqs : q < r => req[q].pc # "idle"
  /\ req' = [req EXCEPT ![r] =
       [@ EXCEPT !.pc = "middleware", !.header = k, !.body = b,
                 !.after201 = IF k # NoKey /\ Returned201(k) # {}
                              THEN CHOOSE x \in Returned201(k) : TRUE
                              ELSE NoBody]]
  /\ UNCHANGED <<payments, idempotency_keys, refunds, webhooks, webhook_events,
                 paymentQueue, ref, att, registered,
                 webhookQueue, inv, http, call, polled, loop>>

\* mutant: the middleware never replays
idempotencyMiddleware_NoReplay(k) == NoResponse

\* idempotencyMiddleware as it decides for header k: the stored response
\* to replay, or NoResponse to go on to the handler
idempotencyMiddleware(k) ==
  IF k = NoKey THEN NoResponse
  ELSE IF k \in DOMAIN idempotency_keys
       THEN Response(200, idempotency_keys[k].response)
       ELSE NoResponse

PayMiddleware(r) ==
  /\ req[r].pc = "middleware"
  /\ LET replay == idempotencyMiddleware(req[r].header) IN
       req' = [req EXCEPT ![r] =
         IF replay # NoResponse
         THEN [@ EXCEPT !.pc = "done", !.response = replay]
         ELSE [@ EXCEPT !.pc = "begin"]]
  /\ UNCHANGED <<payments, idempotency_keys, refunds, webhooks, webhook_events,
                 paymentQueue, ref, att, registered,
                 webhookQueue, inv, http, call, polled, loop>>

\* the SELECT of the middleware rejects: the catch logs and the request goes
\* on to the handler
PayMiddlewareFail(r) ==
  /\ req[r].pc = "middleware"
  /\ req[r].header # NoKey
  /\ req' = [req EXCEPT ![r] = [@ EXCEPT !.pc = "begin", !.fault = TRUE]]
  /\ UNCHANGED <<payments, idempotency_keys, refunds, webhooks, webhook_events,
                 paymentQueue, ref, att, registered,
                 webhookQueue, inv, http, call, polled, loop>>

\* the validation of the handler: the 400 body, or NoBody when valid
Validation(b) ==
  IF b.amount = 0 \/ b.amount <= 0 THEN ErrorBody("Invalid amount")
  ELSE IF b.customer_email = "" THEN ErrorBody("Customer email is required")
  ELSE NoBody

\* pool.connect, the key of the request, BEGIN and the validation; a 400
\* returns from inside the try: finally releases the client, no ROLLBACK
PayBegin(r) ==
  /\ req[r].pc = "begin"
  /\ LET key == IF req[r].header # NoKey THEN req[r].header ELSE uuidv4(r)
         bad == Validation(req[r].body) IN
       req' = [req EXCEPT ![r] =
         IF bad # NoBody
         THEN [@ EXCEPT !.pc = "done", !.idempotencyKey = key,
                        !.txOpen = TRUE, !.response = Response(400, bad)]
         ELSE [@ EXCEPT !.pc = "select", !.idempotencyKey = key,
                        !.txOpen = TRUE]]
  /\ UNCHANGED <<payments, idempotency_keys, refunds, webhooks, webhook_events,
                 paymentQueue, ref, att, registered,
                 webhookQueue, inv, http, call, polled, loop>>

\* SELECT id, status FROM payments WHERE idempotency_key = $1
PaySelect(r) ==
  /\ req[r].pc = "select"
  /\ LET existing == PaymentsByKey(req[r].idempotencyKey) IN
       req' = [req EXCEPT ![r] =
         IF existing # {}
         THEN LET p == CHOOSE p \in existing : TRUE IN
              [@ EXCEPT !.pc = "done", !.txOpen = FALSE,
                        !.response = Response(200,
                           [id |-> p, status |-> payments[p].status,
                            message |-> "Payment already exists"])]
         ELSE [@ EXCEPT !.pc = "insert"]]
  /\ UNCHANGED <<payments, idempotency_keys, refunds, webhooks, webhook_events,
                 paymentQueue, ref, att, registered,
                 webhookQueue, inv, http, call, polled, loop>>

\* requests holding an uncommitted payments row with idempotency_key k
UncommittedInsert(k) ==
  {q \in Reqs : /\ req[q].pc \in {"enqueue", "commit"}
                /\ req[q].idempotencyKey = k}

\* payments.idempotency_key UNIQUE: an INSERT of key k by r waits for the
\* transactions holding an uncommitted row with k
UniqueWaits(r, k) == UncommittedInsert(k) \ {r} # {}

\* mutant: the column is not UNIQUE
UniqueViolation_NoConstraint(k) == FALSE

\* and fails when a committed row has it
UniqueViolation(k) == PaymentsByKey(k) # {}

\* the row of the payment that request r creates; paymentId = uuidv4() is
\* represented by r, a value no other request draws
NewPayment(r) ==
  [idempotency_key |-> req[r].idempotencyKey, amount |-> req[r].body.amount,
   currency |-> req[r].body.currency, status |-> "pending",
   customer_email |-> req[r].body.customer_email, updated_by |-> 0]

\* the response composed from the INSERT ... RETURNING (created_at, the
\* same value wherever the body appears, is left out)
Created(r) ==
  [id |-> r, status |-> "pending", amount |-> req[r].body.amount,
   currency |-> req[r].body.currency]

\* INSERT INTO payments, then INSERT INTO idempotency_keys, both uncommitted;
\* on a unique violation: catch, ROLLBACK, 500
PayInsert(r) ==
  /\ req[r].pc = "insert"
  /\ ~UniqueWaits(r, req[r].idempotencyKey)
  /\ req' = [req EXCEPT ![r] =
       IF UniqueViolation(req[r].idempotencyKey)
       THEN [@ EXCEPT !.pc = "done", !.txOpen = FALSE,
                      !.response = Response(500,
                                     ErrorBody("Payment processing failed"))]
       ELSE [@ EXCEPT !.pc = "enqueue"]]
  /\ UNCHANGED <<payments, idempotency_keys, refunds, webhooks, webhook_events,
                 paymentQueue, ref, att, registered,
                 webhookQueue, inv, http, call, polled, loop>>

\* mutant: an add under a known id puts the job in the queue again
QueueAdd_NoDedup(q, jobId, data) ==
  [j \in DOMAIN q \cup {jobId} |->
     IF j = jobId THEN [state |-> "waiting", data |-> data, stalled |-> 0]
     ELSE q[j]]

\* Bull's Queue.add with a jobId: no job is added when the id is known
\* (jobs stay in the queue when they complete or fail: removeOnComplete and
\* removeOnFail are not set)
QueueAdd(q, jobId, data) ==
  IF jobId \in DOMAIN q THEN q
  ELSE Put(q, jobId, [state |-> "waiting", data |-> data, stalled |-> 0])

\* the queues are created with Bull's default settings: a stalled job is
\* put back to waiting maxStalledCount times, then it fails
maxStalledCount == 1

\* Bull's stalled-job check on an active job whose worker is gone
StalledJob(job) ==
  IF job.stalled < maxStalledCount
  THEN [job EXCEPT !.state = "waiting", !.stalled = @ + 1]
  ELSE [job EXCEPT !.state = "failed"]

\* mutant: the handler does not add the job
PayEnqueue_NoAdd(r) ==
  /\ req[r].pc = "enqueue"
  /\ req' = [req EXCEPT ![r].pc = "commit"]
  /\ UNCHANGED <<payments, idempotency_keys, refunds, webhooks, webhook_events,
                 paymentQueue, ref, att, registered,
                 webhookQueue, inv, http, call, polled, loop>>

\* createPaymentQueue().add({paymentId, amount, email}, {jobId: paymentId}),
\* before the COMMIT
PayEnqueue(r) ==
  /\ req[r].pc = "enqueue"
  /\ paymentQueue' = QueueAdd(paymentQueue, r,
        [paymentId |-> r, amount |-> req[r].body.amount,
         email |-> req[r].body.customer_email])
  /\ req' = [req EXCEPT ![r].pc = "commit"]
  /\ UNCHANGED <<payments, idempotency_keys, refunds, webhooks, webhook_events,
                 ref, att, registered,
                 webhookQueue, inv, http, call, polled, loop>>

\* the add rejects (Redis unreachable): catch, ROLLBACK, 500
PayEnqueueFail(r) ==
  /\ req[r].pc = "enqueue"
  /\ req' = [req EXCEPT ![r] =
       [@ EXCEPT !.pc = "done", !.txOpen = FALSE, !.fault = TRUE,
                 !.response = Response(500,
                                ErrorBody("Payment processing failed"))]]
  /\ UNCHANGED <<payments, idempotency_keys, refunds, webhooks, webhook_events,
                 paymentQueue, ref, att, registered,
                 webhookQueue, inv, http, call, polled, loop>>

\* COMMIT and res.status(201).json(response).  expires_at of the record,
\* NOW() + INTERVAL '24 hours', is kept as its side of the present: "future"
\* when written, "past" once the 24 hours are over
PayCommit(r) ==
  /\ req[r].pc = "commit"
  /\ payments' = Put(payments, r, NewPayment(r))
  /\ idempotency_keys' = Put(idempotency_keys, req[r].idempotencyKey,
        [payment_id |-> r, response |-> Created(r), expires_at |-> "future"])
  /\ req' = [req EXCEPT ![r] =
       [@ EXCEPT !.pc = "done", !.txOpen = FALSE,
                 !.response = Response(201, Created(r))]]
  /\ UNCHANGED <<refunds, webhooks, webhook_events, paymentQueue, ref, att, registered,
                 webhookQueue, inv, http, call, polled, loop>>

\* the COMMIT rejects: catch, ROLLBACK, 500; the job stays in the queue
PayCommitFail(r) ==
  /\ req[r].pc = "commit"
  /\ req' = [req EXCEPT ![r] =
       [@ EXCEPT !.pc = "done", !.txOpen = FALSE, !.fault = TRUE,
                 !.response = Response(500,
                                ErrorBody("Payment processing failed"))]]
  /\ UNCHANGED <<payments, idempotency_keys, refunds, webhooks, webhook_events,
                 paymentQueue, ref, att, registered,
                 webhookQueue, inv, http, call, polled, loop>>

\* 24 hours pass: expires_at of every stored record is now in the past
Day ==
  /\ \E k \in DOMAIN idempotency_keys : idempotency_keys[k].expires_at = "future"
  /\ idempotency_keys' = [k \in DOMAIN idempotency_keys |->
       [idempotency_keys[k] EXCEPT !.expires_at = "past"]]
  /\ UNCHANGED <<payments, refunds, webhooks, webhook_events, paymentQueue,
                 req, ref, att, registered, webhookQueue, inv, http, call, polled, loop>>

(* ---------------- processPayment (jobs/paymentQueue.js) ---------------- *)
\* an invocation: its position, the job data, the drawn outcome, whether the
\* UPDATE matched a row, the subscriptions its INSERT selected
IdleAtt == [pc |-> "idle", paymentId |-> 0, amount |-> 0, isSuccess |-> FALSE,
            matched |-> FALSE, inserted |-> {}]

\* the next unused invocation
NextAttempt(a) ==
  /\ att[a].pc = "idle"
  /\ \A b \in Attempts : b < a => att[b].pc # "idle"

\* paymentQueue.process: Bull hands a waiting job to the worker
Deliver(j, a) ==
  /\ j \in DOMAIN paymentQueue
  /\ paymentQueue[j].state = "waiting"
  /\ NextAttempt(a)
  /\ paymentQueue' = [paymentQueue EXCEPT ![j].state = "active"]
  /\ att' = [att EXCEPT ![a] =
       [IdleAtt EXCEPT !.pc = "begin",
                       !.paymentId = paymentQueue[j].data.paymentId,
                       !.amount = paymentQueue[j].data.amount]]
  /\ UNCHANGED <<payments, idempotency_keys, refunds, webhooks, webhook_events,
                 req, ref, registered,
                 webhookQueue, inv, http, call, polled, loop>>

\* BEGIN, the 2 s delay and Math.random() < 0.9
ProcBegin(a, ok) ==
  /\ att[a].pc = "begin"
  /\ att' = [att EXCEPT ![a] = [@ EXCEPT !.pc = "update", !.isSuccess = ok]]
  /\ UNCHANGED <<payments, idempotency_keys, refunds, webhooks, webhook_events,
                 paymentQueue, req, ref, registered,
                 webhookQueue, inv, http, call, polled, loop>>

\* the status the invocation writes
Outcome(a) == IF att[a].isSuccess THEN "completed" ELSE "failed"
OutcomeEvent(a) ==
  IF att[a].isSuccess THEN "payment.completed" ELSE "payment.failed"

\* the rows the UPDATE of the processor matches: WHERE id = $2
UpdateMatches(id) == id \in DOMAIN payments

\* invocations holding the row lock of payment id (uncommitted UPDATE)
RowLocked(id) ==
  {b \in Attempts : /\ att[b].pc \in {"insert", "commit"}
                    /\ att[b].paymentId = id /\ att[b].matched}

\* UPDATE payments SET status = $1 WHERE id = $2 (uncommitted)
ProcUpdate(a) ==
  /\ att[a].pc = "update"
  /\ RowLocked(att[a].paymentId) \ {a} = {}
  /\ att' = [att EXCEPT ![a] =
       [@ EXCEPT !.pc = "insert", !.matched = UpdateMatches(att[a].paymentId)]]
  /\ UNCHANGED <<payments, idempotency_keys, refunds, webhooks, webhook_events,
                 paymentQueue, req, ref, registered,
                 webhookQueue, inv, http, call, polled, loop>>

\* the subscriptions the INSERT ... SELECT of the processor selects
SelectedWebhooks(eventType) == {w \in DOMAIN webhooks : webhooks[w].active}

\* SQL NULL in a timestamp column
Null == -1

\* mutant: max_retries defaults to 1
EventRow_OneRetry(w, eventType, paymentId, a) ==
  [webhook_id |-> w, event_type |-> eventType, payment_id |-> paymentId,
   status |-> "pending", retry_count |-> 0, max_retries |-> 1,
   next_retry |-> Null, last_error |-> "", inserted_by |-> a]

\* a row of webhook_events with the defaults of the schema; next_retry, when
\* set, is kept as the seconds from the present to the timestamp (0 when it
\* has passed); inserted_by is the invocation whose transaction inserted the
\* row (history only)
EventRow(w, eventType, paymentId, a) ==
  [webhook_id |-> w, event_type |-> eventType, payment_id |-> paymentId,
   status |-> "pending", retry_count |-> 0, max_retries |-> 5,
   next_retry |-> Null, last_error |-> "", inserted_by |-> a]

\* the active subscriptions whose events contain eventType
Subscribed(eventType) ==
  {w \in DOMAIN webhooks : webhooks[w].active /\ eventType \in webhooks[w].events}

\* id of the event row an invocation inserts for a subscription
\* (gen_random_uuid(): distinct for distinct rows)
EventId(a, w) == (a - 1) * MaxWebhooks + w

\* mutant: the INSERT runs on the pool, outside the transaction
ProcInsert_Autocommit(a) ==
  /\ att[a].pc = "insert"
  /\ att' = [att EXCEPT ![a] =
       [@ EXCEPT !.pc = "commit",
                 !.inserted = SelectedWebhooks(OutcomeEvent(a))]]
  /\ webhook_events' =
       LET ws == SelectedWebhooks(OutcomeEvent(a))
           new == {EventId(a, w) : w \in ws} IN
       [e \in (DOMAIN webhook_events) \cup new |->
          IF e \in DOMAIN webhook_events THEN webhook_events[e]
          ELSE LET w == CHOOSE w \in ws : EventId(a, w) = e IN
               EventRow(w, OutcomeEvent(a), att[a].paymentId, a)]
  /\ UNCHANGED <<payments, idempotency_keys, refunds, webhooks,
                 paymentQueue, req, ref, registered,
                 webhookQueue, inv, http, call, polled, loop>>

\* INSERT INTO webhook_events ... SELECT id ... FROM webhooks WHERE active
\* (uncommitted)
ProcInsert(a) ==
  /\ att[a].pc = "insert"
  /\ att' = [att EXCEPT ![a] =
       [@ EXCEPT !.pc = "commit",
                 !.inserted = SelectedWebhooks(OutcomeEvent(a))]]
  /\ UNCHANGED <<payments, idempotency_keys, refunds, webhooks, webhook_events,
                 paymentQueue, req, ref, registered,
                 webhookQueue, inv, http, call, polled, loop>>

\* the payments table after the transaction of invocation a commits
CommitStatus(a) ==
  IF att[a].matched /\ att[a].paymentId \in DOMAIN payments
  THEN [payments EXCEPT ![att[a].paymentId] =
          [@ EXCEPT !.status = Outcome(a), !.updated_by = a]]
  ELSE payments

\* the webhook_events table after the transaction of invocation a commits.
\* A DELETE of a selected subscription waits for this transaction (the
\* INSERT locks the referenced row) and then cascades to the new rows, so
\* rows of subscriptions deleted since the INSERT do not survive
CommitEvents(a) ==
  LET ws == att[a].inserted \cap DOMAIN webhooks
      new == {EventId(a, w) : w \in ws} IN
  [e \in (DOMAIN webhook_events) \cup new |->
     IF e \in DOMAIN webhook_events THEN webhook_events[e]
     ELSE LET w == CHOOSE w \in ws : EventId(a, w) = e IN
          EventRow(w, OutcomeEvent(a), att[a].paymentId, a)]

\* COMMIT
ProcCommit(a) ==
  /\ att[a].pc = "commit"
  /\ payments' = CommitStatus(a)
  /\ webhook_events' = CommitEvents(a)
  /\ att' = [att EXCEPT ![a].pc = "committed"]
  /\ UNCHANGED <<idempotency_keys, refunds, webhooks, paymentQueue, req, ref, registered,
                 webhookQueue, inv, http, call, polled, loop>>

\* a statement of the open transaction rejects: catch, ROLLBACK, rethrow;
\* Bull marks the job failed (attempts defaults to 1: no retry)
ProcError(a) ==
  /\ att[a].pc \in {"update", "insert", "commit"}
  /\ att' = [att EXCEPT ![a] = [@ EXCEPT !.pc = "rolledback", !.inserted = {}]]
  /\ paymentQueue' = [paymentQueue EXCEPT ![att[a].paymentId].state = "failed"]
  /\ UNCHANGED <<payments, idempotency_keys, refunds, webhooks, webhook_events,
                 req, ref, registered,
                 webhookQueue, inv, http, call, polled, loop>>

\* after COMMIT: return (job completed), or on the failure branch
\* throw new Error(...), caught, ROLLBACK outside a transaction, rethrown
\* (job failed)
ProcReturn(a) ==
  /\ att[a].pc = "committed"
  /\ att' = [att EXCEPT ![a].pc = "returned"]
  /\ paymentQueue' = [paymentQueue EXCEPT ![att[a].paymentId].state =
                        IF att[a].isSuccess THEN "completed" ELSE "failed"]
  /\ UNCHANGED <<payments, idempotency_keys, refunds, webhooks, webhook_events,
                 req, ref, registered,
                 webhookQueue, inv, http, call, polled, loop>>

\* at-least-once delivery: the worker dies while it holds the job (its
\* connection closes, an open transaction is rolled back) and Bull's
\* stalled-job check puts the job back to waiting
Stalled(a) ==
  /\ att[a].pc \in {"begin", "update", "insert", "commit", "committed"}
  /\ att' = [att EXCEPT ![a] =
       IF att[a].pc = "committed" THEN [@ EXCEPT !.pc = "crashed_after_commit"]
       ELSE [@ EXCEPT !.pc = "crashed", !.inserted = {}]]
  /\ paymentQueue' = [paymentQueue EXCEPT ![att[a].paymentId] = StalledJob(@)]
  /\ UNCHANGED <<payments, idempotency_keys, refunds, webhooks, webhook_events,
                 req, ref, registered,
                 webhookQueue, inv, http, call, polled, loop>>

(* --------------- POST /payments/:id/refund (payments.js) --------------- *)
IdleRef == [pc |-> "idle", header |-> NoKey, paymentId |-> 0, amount |-> 0,
            refundAmount |-> 0, seenStatus |-> "", response |-> NoResponse,
            fault |-> FALSE]

RefStart(f, id, amount, k) ==
  /\ ref[f].pc = "idle"
  /\ \A g \in RefReqs : g < f => ref[g].pc # "idle"
  /\ ref' = [ref EXCEPT ![f] =
       [@ EXCEPT !.pc = "middleware", !.header = k, !.paymentId = id,
                 !.amount = amount]]
  /\ UNCHANGED <<payments, idempotency_keys, refunds, webhooks, webhook_events,
                 paymentQueue, req, att, registered,
                 webhookQueue, inv, http, call, polled, loop>>

RefMiddleware(f) ==
  /\ ref[f].pc = "middleware"
  /\ LET replay == idempotencyMiddleware(ref[f].header) IN
       ref' = [ref EXCEPT ![f] =
         IF replay # NoResponse
         THEN [@ EXCEPT !.pc = "done", !.response = replay]
         ELSE [@ EXCEPT !.pc = "select"]]
  /\ UNCHANGED <<payments, idempotency_keys, refunds, webhooks, webhook_events,
                 paymentQueue, req, att, registered,
                 webhookQueue, inv, http, call, polled, loop>>

\* the SELECT of the middleware rejects: on to the handler
RefMiddlewareFail(f) ==
  /\ ref[f].pc = "middleware"
  /\ ref[f].header # NoKey
  /\ ref' = [ref EXCEPT ![f] = [@ EXCEPT !.pc = "select", !.fault = TRUE]]
  /\ UNCHANGED <<payments, idempotency_keys, refunds, webhooks, webhook_events,
                 paymentQueue, req, att, registered,
                 webhookQueue, inv, http, call, polled, loop>>

\* const refundAmount = amount || payment.amount
RefundAmount(amount, paymentAmount) ==
  IF amount = 0 THEN paymentAmount ELSE amount

\* the check the handler makes before it creates the refund
RefundRejected(refundAmount, payment) == refundAmount > payment.amount

\* BEGIN, SELECT id, amount, status FROM payments WHERE id = $1, and the
\* validation of the amount; 404 and 400 after ROLLBACK.  seenStatus keeps
\* the status the SELECT returned (the handler does not read it)
RefSelect(f) ==
  /\ ref[f].pc = "select"
  /\ ref' = [ref EXCEPT ![f] =
       IF ref[f].paymentId \notin DOMAIN payments
       THEN [@ EXCEPT !.pc = "done",
                      !.response = Response(404, ErrorBody("Payment not found"))]
       ELSE LET payment == payments[ref[f].paymentId]
                refundAmount == RefundAmount(ref[f].amount, payment.amount) IN
            IF RefundRejected(refundAmount, payment)
            THEN [@ EXCEPT !.pc = "done", !.seenStatus = payment.status,
                           !.response = Response(400,
                              ErrorBody("Refund amount exceeds payment amount"))]
            ELSE [@ EXCEPT !.pc = "insert", !.seenStatus = payment.status,
                           !.refundAmount = refundAmount]]
  /\ UNCHANGED <<payments, idempotency_keys, refunds, webhooks, webhook_events,
                 paymentQueue, req, att, registered,
                 webhookQueue, inv, http, call, polled, loop>>

\* the refund row of request f; refundId = uuidv4() is represented by f
NewRefund(f) ==
  [payment_id |-> ref[f].paymentId, amount |-> ref[f].refundAmount,
   status |-> "pending"]

\* INSERT INTO refunds ... and COMMIT: the row is committed, the payment row
\* is not written
RefCommit(f) ==
  /\ ref[f].pc = "insert"
  /\ refunds' = Put(refunds, f, NewRefund(f))
  /\ ref' = [ref EXCEPT ![f].pc = "webhook"]
  /\ UNCHANGED <<payments, idempotency_keys, webhooks, webhook_events,
                 paymentQueue, req, att, registered,
                 webhookQueue, inv, http, call, polled, loop>>

\* the webhook argument of a call that passes none
Undefined == [undefined |-> TRUE]

\* mutant: axios accepts every status (validateStatus: () => true)
sendWebhookEvent_AnyStatus(webhook, http2xx) ==
  IF webhook = Undefined THEN "throws" ELSE "posted"

\* sendWebhookEvent(eventType, payload, webhook): "posted" when axios.post
\* returned (2xx), "throws" when it rejected or when webhook.url cannot be
\* read because webhook is undefined (no POST is made then)
sendWebhookEvent(webhook, http2xx) ==
  IF webhook = Undefined THEN "throws"
  ELSE IF http2xx THEN "posted" ELSE "throws"

\* after the COMMIT: await sendWebhookEvent('refund.created', refund) with
\* no webhook argument, then 201; a throw goes to catch: ROLLBACK (no
\* transaction is open any more) and 500
RefWebhook(f) ==
  /\ ref[f].pc = "webhook"
  /\ ref' = [ref EXCEPT ![f] =
       IF sendWebhookEvent(Undefined, TRUE) = "throws"
       THEN [@ EXCEPT !.pc = "done",
                      !.response = Response(500,
                                     ErrorBody("Refund processing failed"))]
       ELSE [@ EXCEPT !.pc = "done",
                      !.response = Response(201,
                         [id |-> f, payment_id |-> ref[f].paymentId,
                          amount |-> ref[f].refundAmount,
                          status |-> "pending"])]]
  /\ UNCHANGED <<payments, idempotency_keys, refunds, webhooks, webhook_events,
                 paymentQueue, req, att, registered,
                 webhookQueue, inv, http, call, polled, loop>>

(* ------------------- subscriptions (routes/webhooks.js) ---------------- *)
\* generateSecret(): crypto.randomBytes(32).toString('hex'), a value no
\* other call returns
generateSecret(n) == <<"secret-1", "secret-2", "secret-3", "secret-4">>[n]

\* POST /webhooks: a new active subscription
CreateWebhook(events) ==
  /\ registered < MaxWebhooks
  /\ registered' = registered + 1
  /\ webhooks' = Put(webhooks, registered + 1,
                     [active |-> TRUE, events |-> events,
                      secret |-> generateSecret(registered + 1)])
  /\ UNCHANGED <<payments, idempotency_keys, refunds, webhook_events,
                 paymentQueue, req, ref, att,
                 webhookQueue, inv, http, call, polled, loop>>

\* bodies of PATCH /webhooks/:id: the fields present are updated
PatchBodies ==
  {[active |-> b] : b \in BOOLEAN} \cup {[events |-> E] : E \in EventSets}

\* PATCH /webhooks/:id (UPDATE webhooks SET ... WHERE id)
PatchWebhook(w, body) ==
  /\ w \in DOMAIN webhooks
  /\ webhooks' = [webhooks EXCEPT ![w] =
       [active |-> IF "active" \in DOMAIN body THEN body.active ELSE @.active,
        events |-> IF "events" \in DOMAIN body THEN body.events ELSE @.events,
        secret |-> @.secret]]
  /\ webhooks' # webhooks
  /\ UNCHANGED <<payments, idempotency_keys, refunds, webhook_events,
                 paymentQueue, req, ref, att, registered,
                 webhookQueue, inv, http, call, polled, loop>>

\* the body of the 201 of POST /webhooks: RETURNING id, url, events, active,
\* created_at, and the secret (url and the timestamps are left out of the
\* rows)
CreateWebhookResponse(w) ==
  [id |-> w, events |-> webhooks[w].events, active |-> webhooks[w].active,
   secret |-> webhooks[w].secret]

\* a row of GET /webhooks and the body of GET /webhooks/:id:
\* SELECT id, url, events, active, created_at FROM webhooks
GetWebhookResponse(w) ==
  [id |-> w, events |-> webhooks[w].events, active |-> webhooks[w].active]

\* the body of the 200 of PATCH /webhooks/:id: UPDATE ... RETURNING *
PatchWebhookResponse(w) ==
  [id |-> w, events |-> webhooks[w].events, active |-> webhooks[w].active,
   secret |-> webhooks[w].secret]

\* the body of GET /webhooks/:id/events: SELECT * FROM webhook_events
\* WHERE webhook_id = $1, and the count
GetEventsResponse(w) ==
  LET rows == {e \in DOMAIN webhook_events : webhook_events[e].webhook_id = w} IN
  [events |-> {webhook_events[e] : e \in rows}, total |-> Cardinality(rows)]

\* the body of the 200 of DELETE /webhooks/:id
DeleteWebhookResponse == [message |-> "Webhook deleted successfully"]

\* invocations whose open transaction inserted an event row for w
InsertPending(w) ==
  {a \in Attempts : att[a].pc = "commit" /\ w \in att[a].inserted}

\* DELETE /webhooks/:id; webhook_events.webhook_id ... ON DELETE CASCADE
DeleteWebhook(w) ==
  /\ w \in DOMAIN webhooks
  /\ InsertPending(w) = {}
  /\ webhooks' = [x \in (DOMAIN webhooks) \ {w} |-> webhooks[x]]
  /\ webhook_events' =
       [e \in {e \in DOMAIN webhook_events : webhook_events[e].webhook_id # w}
          |-> webhook_events[e]]
  /\ UNCHANGED <<payments, idempotency_keys, refunds, paymentQueue, req, ref,
                 att, registered,
                 webhookQueue, inv, http, call, polled, loop>>

(* ---------- webhook dispatcher (jobs/paymentQueue.js, part 2) ---------- *)
\* an invocation of processWebhookEvent: its position, the job data it
\* destructures, the error it caught; seenActive keeps the active flag of
\* the subscription at the SELECT (the SELECT does not read it)
IdleInv == [pc |-> "idle", id |-> 0, webhook_id |-> 0, retry_count |-> 0,
            max_retries |-> 0, error |-> "", seenActive |-> FALSE]

\* mutant: the poller selects every pending row
Due_AnyTime(row) == row.status = "pending"

\* WHERE status = 'pending' AND (next_retry IS NULL OR next_retry <= NOW())
Due(row) ==
  row.status = "pending" /\ (row.next_retry = Null \/ row.next_retry <= 0)

\* the rows the poller selects (fewer than LIMIT 100)
pendingEvents == {e \in DOMAIN webhook_events : Due(webhook_events[e])}

\* no tick yet
NoPoll == [rows |-> {}, notDue |-> {}, busy |-> {}]

\* the selected rows whose job a worker holds
Busy ==
  {e \in pendingEvents : /\ e \in DOMAIN webhookQueue
                         /\ webhookQueue[e].state = "active"}

\* the pending rows whose next_retry is still ahead
NotDue ==
  {e \in DOMAIN webhook_events : /\ webhook_events[e].status = "pending"
                                  /\ webhook_events[e].next_retry > 0}

\* the columns of row e the poller selects and the consumer reads
EventData(e) ==
  [id |-> e, webhook_id |-> webhook_events[e].webhook_id,
   event_type |-> webhook_events[e].event_type,
   retry_count |-> webhook_events[e].retry_count,
   max_retries |-> webhook_events[e].max_retries]

RECURSIVE AddEvents(_, _)
\* for (const event of pendingEvents.rows)
\*   await webhookQueue.add(event, { jobId: event.id })
AddEvents(q, events) ==
  IF events = {} THEN q
  ELSE LET e == CHOOSE e \in events : TRUE IN
       AddEvents(QueueAdd(q, e, EventData(e)), events \ {e})

\* the setInterval callback of startWebhookRetryProcessor, every 30 s
Poll ==
  /\ webhookQueue' = AddEvents(webhookQueue, pendingEvents)
  /\ polled' = [rows |-> pendingEvents, notDue |-> NotDue, busy |-> Busy]
  /\ UNCHANGED <<payments, idempotency_keys, refunds, webhooks, webhook_events,
                 paymentQueue, req, ref, att, registered, inv, http, call, loop>>

\* a timestamp's distance from the present after another 60 s
Elapse(t) == IF t = Null THEN Null ELSE IF t > 60 THEN t - 60 ELSE 0

\* 60 s pass (NOW() advances)
Tick ==
  /\ \E e \in DOMAIN webhook_events : webhook_events[e].next_retry > 0
  /\ webhook_events' = [e \in DOMAIN webhook_events |->
       [webhook_events[e] EXCEPT !.next_retry = Elapse(@)]]
  /\ UNCHANGED <<payments, idempotency_keys, refunds, webhooks,
                 paymentQueue, req, ref, att, registered, webhookQueue, inv, http, call, polled, loop>>

\* webhookQueue.process: Bull hands a waiting job to a free worker
WDeliver(e, i) ==
  /\ e \in DOMAIN webhookQueue
  /\ webhookQueue[e].state = "waiting"
  /\ inv[i].pc = "idle"
  /\ \A j \in Workers : j < i => inv[j].pc # "idle"
  /\ webhookQueue' = [webhookQueue EXCEPT ![e].state = "active"]
  /\ inv' = [inv EXCEPT ![i] =
       [IdleInv EXCEPT !.pc = "select", !.id = e,
                       !.webhook_id = webhookQueue[e].data.webhook_id,
                       !.retry_count = webhookQueue[e].data.retry_count,
                       !.max_retries = webhookQueue[e].data.max_retries]]
  /\ UNCHANGED <<payments, idempotency_keys, refunds, webhooks, webhook_events,
                 paymentQueue, req, ref, att, registered, http, call, polled, loop>>

\* SELECT url, secret FROM webhooks WHERE id = $1
WSelect(i) ==
  /\ inv[i].pc = "select"
  /\ inv' = [inv EXCEPT ![i] =
       IF inv[i].webhook_id \in DOMAIN webhooks
       THEN [@ EXCEPT !.pc = "send",
                      !.seenActive = webhooks[inv[i].webhook_id].active]
       ELSE [@ EXCEPT !.pc = "missing"]]
  /\ UNCHANGED <<payments, idempotency_keys, refunds, webhooks, webhook_events,
                 paymentQueue, req, ref, att, registered, webhookQueue, http, call, polled, loop>>

\* UPDATE webhook_events SET ... WHERE id = $n by an invocation: the row
\* with the fields set, when the row exists
UpdateEvent(e, set) ==
  IF e \in DOMAIN webhook_events
  THEN [webhook_events EXCEPT ![e] =
          [f \in DOMAIN @ |-> IF f \in DOMAIN set THEN set[f] ELSE @[f]]]
  ELSE webhook_events

\* if (webhookResult.rows.length === 0):
\* UPDATE webhook_events SET status = 'failed' WHERE id = $2; return
WMissing(i) ==
  /\ inv[i].pc = "missing"
  /\ webhook_events' = UpdateEvent(inv[i].id, [status |-> "failed"])
  /\ inv' = [inv EXCEPT ![i].pc = "return"]
  /\ UNCHANGED <<payments, idempotency_keys, refunds, webhooks,
                 paymentQueue, req, ref, att, registered, webhookQueue, http, call, polled, loop>>

\* the POSTs made for event e so far, and whether one was answered 2xx
Http(e) == IF e \in DOMAIN http THEN http[e] ELSE [posts |-> 0, ok2xx |-> FALSE]

\* await sendWebhookEvent(event_type, payload, webhook): one POST, answered
\* 2xx or not (another status, a network error, the 5 s timeout)
WSend(i, http2xx) ==
  /\ inv[i].pc = "send"
  /\ http' = Put(http, inv[i].id,
        [posts |-> Http(inv[i].id).posts + 1,
         ok2xx |-> Http(inv[i].id).ok2xx \/ http2xx])
  /\ inv' = [inv EXCEPT ![i] =
       IF sendWebhookEvent([url |-> inv[i].webhook_id], http2xx) = "posted"
       THEN [@ EXCEPT !.pc = "complete"]
       ELSE [@ EXCEPT !.pc = "catch", !.error = "Webhook delivery failed"]]
  /\ UNCHANGED <<payments, idempotency_keys, refunds, webhooks, webhook_events,
                 paymentQueue, req, ref, att, registered, webhookQueue, call, polled, loop>>

\* UPDATE webhook_events SET status = 'completed' WHERE id = $2
WComplete(i) ==
  /\ inv[i].pc = "complete"
  /\ webhook_events' = UpdateEvent(inv[i].id, [status |-> "completed"])
  /\ inv' = [inv EXCEPT ![i].pc = "return"]
  /\ UNCHANGED <<payments, idempotency_keys, refunds, webhooks,
                 paymentQueue, req, ref, att, registered, webhookQueue, http, call, polled, loop>>

RECURSIVE Pow2(_)
\* Math.pow(2, n)
Pow2(n) == IF n = 0 THEN 1 ELSE 2 * Pow2(n - 1)

\* const backoffSeconds = Math.pow(2, newRetryCount) * 60
backoffSeconds(newRetryCount) == Pow2(newRetryCount) * 60

\* the catch: newRetryCount from the retry_count of the job data; failed
\* when it reaches max_retries, else the next retry is scheduled
WCatch(i) ==
  /\ inv[i].pc = "catch"
  /\ LET newRetryCount == inv[i].retry_count + 1 IN
       webhook_events' =
         IF newRetryCount >= inv[i].max_retries
         THEN UpdateEvent(inv[i].id,
                [status |-> "failed", last_error |-> inv[i].error,
                 retry_count |-> newRetryCount])
         ELSE UpdateEvent(inv[i].id,
                [retry_count |-> newRetryCount,
                 next_retry |-> backoffSeconds(newRetryCount),
                 last_error |-> inv[i].error])
  /\ inv' = [inv EXCEPT ![i].pc = "return"]
  /\ UNCHANGED <<payments, idempotency_keys, refunds, webhooks,
                 paymentQueue, req, ref, att, registered, webhookQueue, http, call, polled, loop>>

\* processWebhookEvent resolves: Bull marks the job completed
WReturn(i) ==
  /\ inv[i].pc = "return"
  /\ webhookQueue' = [webhookQueue EXCEPT ![inv[i].id].state = "completed"]
  /\ inv' = [inv EXCEPT ![i] = IdleInv]
  /\ UNCHANGED <<payments, idempotency_keys, refunds, webhooks, webhook_events,
                 paymentQueue, req, ref, att, registered, http, call, polled, loop>>

\* the worker dies while it holds the job; Bull's stalled-job check
WStalled(i) ==
  /\ inv[i].pc # "idle"
  /\ webhookQueue' = [webhookQueue EXCEPT ![inv[i].id] = StalledJob(@)]
  /\ inv' = [inv EXCEPT ![i] = IdleInv]
  /\ UNCHANGED <<payments, idempotency_keys, refunds, webhooks, webhook_events,
                 paymentQueue, req, ref, att, registered, http, call, polled, loop>>

(* ------------- webhook signatures (services/webhookService.js) --------- *)
\* payloads: a JSON object or a string, each kept with the text that
\* JSON.stringify gives for the object and that the string itself is
Payloads ==
  { [type |-> "object", json |-> "{\"payment_id\":1}"],
    [type |-> "string", json |-> "{\"payment_id\":1}"],
    [type |-> "object", json |-> "{\"payment_id\":2}"] }
Secrets == {"secret-1", "secret-2"}

\* default tolerance of verifyWebhookSignature, in ms
tolerance == 300000

\* Date.now() at the verification, and the X-Webhook-Timestamp values: now,
\* 5 minutes ago to the ms, 1 ms more, 6 minutes ago, 6 minutes ahead
CurrentTimes == {1000000}
Timestamps == {1000000, 700000, 699999, 640000, 1360000}

\* typeof payload === 'string' ? payload : JSON.stringify(payload)
payloadString(payload) == payload.json

\* HMAC-SHA256 of message under secret as a hex digest: 64 characters that
\* stand for the pair (secret, message), no two pairs sharing a digest
hmac(secret, message) ==
  [length |-> 64, secret |-> secret, timestamp |-> message[1], text |-> message[2]]

\* generateSignature: the digest of `${timestamp}.${payloadString}`
generateSignature(payload, secret, timestamp) ==
  hmac(secret, <<timestamp, payloadString(payload)>>)

\* what happens to a signature on its way: nothing, one character changed,
\* cut to half its length
Tampers == {"none", "flipped", "truncated"}
Tamper(signature, how) ==
  IF how = "flipped" THEN [signature EXCEPT !.text = "?"]
  ELSE IF how = "truncated" THEN [signature EXCEPT !.length = 32]
  ELSE signature

\* crypto.timingSafeEqual(Buffer.from(a), Buffer.from(b)): throws a
\* RangeError when the lengths differ
timingSafeEqual(a, b) ==
  IF a.length # b.length THEN "throws"
  ELSE IF a = b THEN "true" ELSE "false"

Abs(x) == IF x < 0 THEN -x ELSE x

\* mutant: the timestamp is not checked
verifyWebhookSignature_NoWindow(payload, signature, secret, timestamp, currentTime) ==
  timingSafeEqual(signature, generateSignature(payload, secret, timestamp))

\* verifyWebhookSignature(payload, signature, secret, timestamp) at
\* Date.now() = currentTime
verifyWebhookSignature(payload, signature, secret, timestamp, currentTime) ==
  IF Abs(currentTime - timestamp) > tolerance THEN "false"
  ELSE timingSafeEqual(signature, generateSignature(payload, secret, timestamp))

\* no call made
NoCall == [result |-> "none"]

\* the calls a receiver can make: the sender signed (signed, key, timestamp),
\* the signature was tampered with or not, and the receiver verifies payload
\* with its secret at currentTime
Calls ==
  [signed : Payloads, key : Secrets, tamper : Tampers, payload : Payloads,
   secret : Secrets, timestamp : Timestamps, currentTime : CurrentTimes,
   result : {"pending"}]

\* the signature the receiver got
Received(c) == Tamper(generateSignature(c.signed, c.key, c.timestamp), c.tamper)

\* the receiver calls verifyWebhookSignature
Verify ==
  /\ call.result = "pending"
  /\ call' = [call EXCEPT !.result =
       verifyWebhookSignature(call.payload, Received(call), call.secret,
                              call.timestamp, call.currentTime)]
  /\ UNCHANGED <<payments, idempotency_keys, refunds, webhooks, webhook_events,
                 paymentQueue, req, ref, att, registered, webhookQueue, inv,
                 http, polled, loop>>

(* --------- sendWebhookWithRetry (services/webhookService.js) ----------- *)
\* the maxRetries arguments of the calls (5 is the default)
MaxRetriesArgs == {0, 1, 2, 3, 4, 5}

\* the webhook arguments: a subscription, or none
WebhookArgs == {"subscription", "undefined"}

\* the value of a call that has not ended
NoResult == [kind |-> "none", success |-> FALSE, retryCount |-> 0]

\* no call made
NoLoop == [pc |-> "idle", webhook |-> "undefined", maxRetries |-> 0,
           retryCount |-> 0, lastError |-> "null", sends |-> 0,
           waits |-> <<>>, result |-> NoResult]

\* sendWebhookWithRetry(webhook, event, maxRetries) is called:
\* let retryCount = 0; let lastError = null
LoopCalls ==
  {[NoLoop EXCEPT !.pc = "while", !.webhook = w, !.maxRetries = m] :
     w \in WebhookArgs, m \in MaxRetriesArgs}

\* while (retryCount < maxRetries)
LoopTest ==
  /\ loop.pc = "while"
  /\ loop' = [loop EXCEPT !.pc =
       IF loop.retryCount < loop.maxRetries THEN "send" ELSE "return"]
  /\ UNCHANGED <<payments, idempotency_keys, refunds, webhooks, webhook_events,
                 paymentQueue, req, ref, att, registered, webhookQueue, inv,
                 http, polled, call>>

\* await sendWebhookEvent(...): return { success: true, result, retryCount },
\* or catch: lastError = error; retryCount++; a wait follows when
\* retryCount < maxRetries.  sends counts the calls of sendWebhookEvent
LoopSend(http2xx) ==
  /\ loop.pc = "send"
  /\ LET webhook == IF loop.webhook = "undefined" THEN Undefined
                    ELSE [url |-> "https://receiver"] IN
     loop' =
       IF sendWebhookEvent(webhook, http2xx) = "posted"
       THEN [loop EXCEPT !.pc = "done", !.sends = @ + 1,
               !.result = [kind |-> "returned", success |-> TRUE,
                           retryCount |-> loop.retryCount]]
       ELSE [loop EXCEPT !.sends = @ + 1, !.lastError = "error",
               !.retryCount = @ + 1,
               !.pc = IF loop.retryCount + 1 < loop.maxRetries
                      THEN "wait" ELSE "while"]
  /\ UNCHANGED <<payments, idempotency_keys, refunds, webhooks, webhook_events,
                 paymentQueue, req, ref, att, registered, webhookQueue, inv,
                 http, polled, call>>

\* const backoffSeconds = Math.pow(2, retryCount);
\* await new Promise(resolve => setTimeout(resolve, backoffSeconds * 1000))
LoopWait ==
  /\ loop.pc = "wait"
  /\ loop' = [loop EXCEPT !.pc = "while",
                          !.waits = Append(@, Pow2(loop.retryCount))]
  /\ UNCHANGED <<payments, idempotency_keys, refunds, webhooks, webhook_events,
                 paymentQueue, req, ref, att, registered, webhookQueue, inv,
                 http, polled, call>>

\* return { success: false, error: lastError.message, retryCount }: reading
\* message of null throws a TypeError
LoopReturn ==
  /\ loop.pc = "return"
  /\ loop' = [loop EXCEPT !.pc = "done", !.result =
       IF loop.lastError = "null"
       THEN [kind |-> "threw", success |-> FALSE, retryCount |-> 0]
       ELSE [kind |-> "returned", success |-> FALSE,
             retryCount |-> loop.retryCount]]
  /\ UNCHANGED <<payments, idempotency_keys, refunds, webhooks, webhook_events,
                 paymentQueue, req, ref, att, registered, webhookQueue, inv,
                 http, polled, call>>

RetryLoop ==
  \/ LoopTest
  \/ \E http2xx \in BOOLEAN : LoopSend(http2xx)
  \/ LoopWait
  \/ LoopReturn

(* ------------------------------ system --------------------------------- *)
Empty == [x \in {} |-> 0]

\* the webhook dispatcher has not run
NoDispatch ==
  /\ webhookQueue = Empty
  /\ inv = [i \in Workers |-> IdleInv]
  /\ http = Empty
  /\ polled = NoPoll
  /\ call = NoCall
  /\ loop = NoLoop

\* the state after construction: empty tables, empty queue, nothing running
Init ==
  /\ payments = Empty
  /\ idempotency_keys = Empty
  /\ refunds = Empty
  /\ webhooks = Empty
  /\ webhook_events = Empty
  /\ paymentQueue = Empty
  /\ req = [r \in Reqs |-> IdleReq]
  /\ ref = [f \in RefReqs |-> IdleRef]
  /\ att = [a \in Attempts |-> IdleAtt]
  /\ registered = 0
  /\ NoDispatch

Intake ==
  \/ \E r \in Reqs, k \in ClientKeys \cup {NoKey}, b \in Bodies : PayStart(r, k, b)
  \/ \E r \in Reqs : PayMiddleware(r)
  \/ \E r \in Reqs : PayMiddlewareFail(r)
  \/ \E r \in Reqs : PayBegin(r)
  \/ \E r \in Reqs : PaySelect(r)
  \/ \E r \in Reqs : PayInsert(r)
  \/ \E r \in Reqs : PayEnqueue(r)
  \/ \E r \in Reqs : PayEnqueueFail(r)
  \/ \E r \in Reqs : PayCommit(r)
  \/ \E r \in Reqs : PayCommitFail(r)

Processor ==
  \/ \E j \in Reqs, a \in Attempts : Deliver(j, a)
  \/ \E a \in Attempts, ok \in BOOLEAN : ProcBegin(a, ok)
  \/ \E a \in Attempts : ProcUpdate(a)
  \/ \E a \in Attempts : ProcInsert(a)
  \/ \E a \in Attempts : ProcCommit(a)
  \/ \E a \in Attempts : ProcError(a)
  \/ \E a \in Attempts : ProcReturn(a)
  \/ \E a \in Attempts : Stalled(a)

Refunds ==
  \/ \E f \in RefReqs, id \in RefundIds, amount \in RefundAmounts,
        k \in RefundKeys : RefStart(f, id, amount, k)
  \/ \E f \in RefReqs : RefMiddleware(f)
  \/ \E f \in RefReqs : RefMiddlewareFail(f)
  \/ \E f \in RefReqs : RefSelect(f)
  \/ \E f \in RefReqs : RefCommit(f)
  \/ \E f \in RefReqs : RefWebhook(f)

Subscriptions ==
  \/ \E events \in EventSets : CreateWebhook(events)
  \/ \E w \in WebhookIds, body \in PatchBodies : PatchWebhook(w, body)
  \/ \E w \in WebhookIds : DeleteWebhook(w)

Dispatch ==
  \/ Poll
  \/ Tick
  \/ \E e \in DOMAIN webhookQueue, i \in Workers : WDeliver(e, i)
  \/ \E i \in Workers : WSelect(i)
  \/ \E i \in Workers : WMissing(i)
  \/ \E i \in Workers, http2xx \in BOOLEAN : WSend(i, http2xx)
  \/ \E i \in Workers : WComplete(i)
  \/ \E i \in Workers : WCatch(i)
  \/ \E i \in Workers : WReturn(i)
  \/ \E i \in Workers : WStalled(i)

\* the whole system; the specifications below observe it one route or
\* worker at a time
Next == Intake \/ Day \/ Processor \/ Refunds \/ Subscriptions \/ Dispatch
Spec == Init /\ [][Next]_vars

\* concurrent POST /payments requests against the empty store
SpecIntake == Init /\ [][Intake]_vars

\* the same over days: stored idempotency records expire
NextExpiry == Intake \/ Day
SpecExpiry == Init /\ [][NextExpiry]_vars

\* The state after the first request POST /payments, sent with the valid
\* body PaidBody and header k, was answered 201: its rows are committed and
\* its job waits in the queue.
Paid == {1}
PaidKey(r, k) == IF k # NoKey THEN k ELSE uuidv4(r)
PaidBody == [amount |-> 10, currency |-> "USD", customer_email |-> "a@b.c"]
PaidResponse(r) ==
  [id |-> r, status |-> "pending", amount |-> PaidBody.amount,
   currency |-> PaidBody.currency]
PaidPayments(k) ==
  [r \in Paid |->
     [idempotency_key |-> PaidKey(r, k), amount |-> PaidBody.amount,
      currency |-> PaidBody.currency, status |-> "pending",
      customer_email |-> PaidBody.customer_email, updated_by |-> 0]]
PaidQueue ==
  [r \in Paid |->
     [state |-> "waiting", stalled |-> 0,
      data |-> [paymentId |-> r, amount |-> PaidBody.amount,
                email |-> PaidBody.customer_email]]]
AfterIntake(k) ==
  /\ idempotency_keys = [x \in {PaidKey(r, k) : r \in Paid} |->
       LET r == CHOOSE r \in Paid : PaidKey(r, k) = x IN
       [payment_id |-> r, response |-> PaidResponse(r), expires_at |-> "future"]]
  /\ req = [r \in Reqs |->
       IF r \in Paid
       THEN [IdleReq EXCEPT !.pc = "done", !.header = k, !.body = PaidBody,
               !.idempotencyKey = PaidKey(r, k),
               !.response = Response(201, PaidResponse(r))]
       ELSE IdleReq]

\* the payment processor and the subscription routes, on a created payment
ProcessorInit ==
  /\ AfterIntake(NoKey)
  /\ payments = PaidPayments(NoKey)
  /\ paymentQueue = PaidQueue
  /\ refunds = Empty
  /\ webhooks = Empty
  /\ webhook_events = Empty
  /\ ref = [f \in RefReqs |-> IdleRef]
  /\ att = [a \in Attempts |-> IdleAtt]
  /\ registered = 0
  /\ NoDispatch

NextProcessor == Processor \/ Subscriptions
SpecProcessor == ProcessorInit /\ [][NextProcessor]_vars

\* The refund route on a created payment: the payment is still pending, or
\* the first invocation of processPayment has completed or failed it and
\* returned; one subscription to refund.created is registered and active.
RefundInit ==
  \E k \in RefundKeys, st \in {"pending", "completed", "failed"} :
    /\ AfterIntake(k)
    /\ payments = [PaidPayments(k) EXCEPT
         ![1].status = st, ![1].updated_by = IF st = "pending" THEN 0 ELSE 1]
    /\ paymentQueue = [PaidQueue EXCEPT
         ![1].state = IF st = "pending" THEN "waiting" ELSE st]
    /\ att = [a \in Attempts |->
         IF a = 1 /\ st # "pending"
         THEN [IdleAtt EXCEPT !.pc = "returned", !.paymentId = 1,
                 !.amount = PaidBody.amount, !.isSuccess = (st = "completed"),
                 !.matched = TRUE]
         ELSE IdleAtt]
    /\ refunds = Empty
    /\ webhooks = [w \in {1} |->
         [active |-> TRUE, events |-> {"refund.created"},
          secret |-> generateSecret(w)]]
    /\ webhook_events = Empty
    /\ ref = [f \in RefReqs |-> IdleRef]
    /\ registered = 1
    /\ NoDispatch

SpecRefund == RefundInit /\ [][Refunds]_vars

\* a receiver verifying a delivery: any call, then its result
SignatureInit ==
  /\ payments = Empty
  /\ idempotency_keys = Empty
  /\ refunds = Empty
  /\ webhooks = Empty
  /\ webhook_events = Empty
  /\ paymentQueue = Empty
  /\ req = [r \in Reqs |-> IdleReq]
  /\ ref = [f \in RefReqs |-> IdleRef]
  /\ att = [a \in Attempts |-> IdleAtt]
  /\ registered = 0
  /\ webhookQueue = Empty
  /\ inv = [i \in Workers |-> IdleInv]
  /\ http = Empty
  /\ polled = NoPoll
  /\ call \in Calls
  /\ loop = NoLoop
SpecSignature == SignatureInit /\ [][Verify]_vars

\* a caller of sendWebhookWithRetry: any call, then the loop
RetryLoopInit ==
  /\ payments = Empty
  /\ idempotency_keys = Empty
  /\ refunds = Empty
  /\ webhooks = Empty
  /\ webhook_events = Empty
  /\ paymentQueue = Empty
  /\ req = [r \in Reqs |-> IdleReq]
  /\ ref = [f \in RefReqs |-> IdleRef]
  /\ att = [a \in Attempts |-> IdleAtt]
  /\ registered = 0
  /\ webhookQueue = Empty
  /\ inv = [i \in Workers |-> IdleInv]
  /\ http = Empty
  /\ polled = NoPoll
  /\ call = NoCall
  /\ loop \in LoopCalls
SpecRetryLoop == RetryLoopInit /\ [][RetryLoop]_vars /\ WF_vars(RetryLoop)

\* The payment processor against a store that may reject a statement, no
\* worker dying: Bull hands every waiting job to the worker and the worker
\* takes every invocation to its end.
Work ==
  \/ \E j \in Reqs, a \in Attempts : Deliver(j, a)
  \/ \E a \in Attempts, ok \in BOOLEAN : ProcBegin(a, ok)
  \/ \E a \in Attempts : ProcUpdate(a)
  \/ \E a \in Attempts : ProcInsert(a)
  \/ \E a \in Attempts : ProcCommit(a)
  \/ \E a \in Attempts : ProcReturn(a)
NextRetry ==
  \/ Work
  \/ \E a \in Attempts : ProcError(a)
  \/ Subscriptions
SpecRetry == ProcessorInit /\ [][NextRetry]_vars /\ WF_vars(Work)

\* The dispatcher on the outbox of a payment whose job was delivered twice:
\* the first invocation of processPayment committed "completed" and its
\* worker died before the job was acknowledged, the second committed
\* "completed" again and returned.  Subscription 1 is active; each
\* invocation inserted one pending payment.completed row for it.
Dispatched == {1, 2}
DispatchEvents == {EventId(a, 1) : a \in Dispatched}
DispatchInit ==
  /\ AfterIntake(NoKey)
  /\ payments = [PaidPayments(NoKey) EXCEPT
       ![1].status = "completed", ![1].updated_by = 2]
  /\ paymentQueue = [PaidQueue EXCEPT ![1].state = "completed", ![1].stalled = 1]
  /\ att = [a \in Attempts |->
       IF a \in Dispatched
       THEN [IdleAtt EXCEPT
               !.pc = IF a = 1 THEN "crashed_after_commit" ELSE "returned",
               !.paymentId = 1, !.amount = PaidBody.amount, !.isSuccess = TRUE,
               !.matched = TRUE, !.inserted = {1}]
       ELSE IdleAtt]
  /\ refunds = Empty
  /\ webhooks = [w \in {1} |->
       [active |-> TRUE, events |-> {"payment.completed", "payment.failed"},
        secret |-> generateSecret(w)]]
  /\ webhook_events = [e \in {EventId(a, 1) : a \in Dispatched} |->
       LET a == CHOOSE a \in Dispatched : EventId(a, 1) = e IN
       EventRow(1, "payment.completed", 1, a)]
  /\ ref = [f \in RefReqs |-> IdleRef]
  /\ registered = 1
  /\ NoDispatch

NextDispatch ==
  \/ Dispatch
  \/ \E w \in WebhookIds, body \in PatchBodies : PatchWebhook(w, body)
  \/ \E w \in WebhookIds : DeleteWebhook(w)
SpecDispatch == DispatchInit /\ [][NextDispatch]_vars

\* The dispatcher against a receiver that fails every POST, no worker dying:
\* the poller's timer fires again and again, time passes, and the consumer
\* takes every job handed to it to its end.
Consume ==
  \/ \E e \in DOMAIN webhookQueue, i \in Workers : WDeliver(e, i)
  \/ \E i \in Workers : WSelect(i)
  \/ \E i \in Workers : WSend(i, FALSE)
  \/ \E i \in Workers : WCatch(i)
  \/ \E i \in Workers : WReturn(i)
NextExhaust ==
  \/ Poll
  \/ Tick
  \/ Consume
  \/ \E w \in WebhookIds, body \in PatchBodies : PatchWebhook(w, body)
SpecExhaust ==
  /\ DispatchInit /\ [][NextExhaust]_vars
  /\ WF_vars(Poll) /\ WF_vars(Tick) /\ WF_vars(Consume)

(* ------------------- idempotent intake: C1, C2, C3 --------------------- *)
\* requests that carried client key k and are answered
Answered(k) == {r \in Reqs : req[r].header = k /\ req[r].pc = "done"}

\* C1: for POST /payments requests carrying the same Idempotency-Key, in any
\* interleaving, the payments table never holds two rows with that key, and
\* it holds exactly one as soon as one of the requests is answered 200 or 201.
C1_OnePaymentPerKey ==
  \A k \in ClientKeys :
    /\ Cardinality(PaymentsByKey(k)) <= 1
    /\ (\E r \in Answered(k) : req[r].response.status \in {200, 201})
         => Cardinality(PaymentsByKey(k)) = 1

\* two requests with one key that both passed the middleware and are
\* answered, one row
C1_Witness ==
  /\ req[1].header = "K1" /\ req[2].header = "K1"
  /\ req[1].pc = "done" /\ req[2].pc = "done"
  /\ req[1].response.status = 201
  /\ req[2].txOpen = FALSE /\ req[2].idempotencyKey = "K1"
  /\ Cardinality(PaymentsByKey("K1")) = 1

\* C2: requests POST /payments with the same Idempotency-Key and the same
\* valid body all receive the same response body and none a 500 (requests
\* during which the queue or the store rejected a call set aside).
C2_SameResponse ==
  \A k \in ClientKeys : \A r, q \in Answered(k) :
    ( /\ req[r].body = req[q].body
      /\ Validation(req[r].body) = NoBody
      /\ ~req[r].fault /\ ~req[q].fault )
    => /\ req[r].response.body = req[q].response.body
       /\ req[r].response.status # 500

StatusEdges ==
  { <<"pending", "completed">>, <<"pending", "failed">>,
    <<"completed", "partial_refunded">>, <<"completed", "refunded">>,
    <<"partial_refunded", "partial_refunded">>,
    <<"partial_refunded", "refunded">> }

\* C6: every change of a payment's status is an edge of the graph
\* pending -> {completed, failed}, completed -> {partial_refunded, refunded},
\* partial_refunded -> {partial_refunded, refunded}; a delivery of
\* ProcessPayment changes no status that is not pending.
C6_StatusPath ==
  [][\A p \in DOMAIN payments :
       (p \in DOMAIN payments' /\ payments'[p].status # payments[p].status)
         => <<payments[p].status, payments'[p].status>> \in StatusEdges]_vars

\* the payment.completed / payment.failed rows of payment p for subscription w
OutcomeRows(p, w) ==
  {e \in DOMAIN webhook_events :
     /\ webhook_events[e].payment_id = p
     /\ webhook_events[e].webhook_id = w
     /\ webhook_events[e].event_type \in {"payment.completed", "payment.failed"}}

\* C7: for one payment and one subscription there is at most one
\* payment.completed-or-payment.failed row in webhook_events, however often
\* the ProcessPayment job is delivered.
C7_OneOutcomeEvent ==
  \A p \in DOMAIN payments : \A w \in DOMAIN webhooks :
    Cardinality(OutcomeRows(p, w)) <= 1

\* invocations whose transaction is in progress, committed, not committed
Running == {a \in Attempts : att[a].pc \in {"begin", "update", "insert", "commit"}}
Committed ==
  {a \in Attempts : att[a].pc \in {"committed", "returned", "crashed_after_commit"}}
Aborted == {a \in Attempts : att[a].pc \in {"rolledback", "crashed"}}

\* C8: the rows a transition to completed (failed) inserts are one row per
\* subscription that is active and whose events contain payment.completed
\* (payment.failed), and no others.
C8_OutboxMatchesSubscriptions ==
  [][\A a \in Attempts :
       (att[a].pc = "insert" /\ att'[a].pc = "commit")
         => att'[a].inserted = Subscribed(OutcomeEvent(a))]_vars

\* rows of webhook_events inserted by invocation a
RowsOf(a) == {e \in DOMAIN webhook_events : webhook_events[e].inserted_by = a}

\* C9: the status written by the processor and its event rows are committed
\* together: a payment is completed or failed only by an invocation whose
\* transaction committed, the rows that transaction inserted are then in
\* webhook_events (for the subscriptions still registered), and an
\* invocation that has not committed, or failed before its COMMIT, leaves
\* the payment status and webhook_events as they were.
C9_AtomicOutbox ==
  /\ \A p \in DOMAIN payments :
       /\ payments[p].updated_by = 0 <=> payments[p].status = "pending"
       /\ payments[p].updated_by # 0 =>
            LET a == payments[p].updated_by IN
            /\ a \in Committed
            /\ att[a].paymentId = p
            /\ payments[p].status = Outcome(a)
            /\ \A w \in att[a].inserted \cap DOMAIN webhooks :
                 /\ EventId(a, w) \in DOMAIN webhook_events
                 /\ webhook_events[EventId(a, w)].payment_id = p
                 /\ webhook_events[EventId(a, w)].event_type = OutcomeEvent(a)
  /\ \A e \in DOMAIN webhook_events : webhook_events[e].inserted_by \in Committed
  /\ \A a \in Running \cup Aborted :
       /\ RowsOf(a) = {}
       /\ \A p \in DOMAIN payments : payments[p].updated_by # a

\* an invocation failed after its UPDATE, another one committed its status
\* together with an event row
C9_Witness ==
  \E a, b \in Attempts :
    /\ att[a].pc = "crashed" /\ att[a].matched
    /\ att[b].pc = "committed" /\ att[b].inserted # {}
    /\ payments[att[b].paymentId].updated_by = b
    /\ RowsOf(b) # {}

(* --------------------------- refunds: C4, C5, C10 ---------------------- *)
RECURSIVE SumAmounts(_)
\* the sum of the amounts of a set of refund rows (by id)
SumAmounts(ids) ==
  IF ids = {} THEN 0
  ELSE LET f == CHOOSE f \in ids : TRUE IN
       refunds[f].amount + SumAmounts(ids \ {f})

\* the refunds of payment p that are pending or processed
LiveRefunds(p) ==
  {f \in DOMAIN refunds : /\ refunds[f].payment_id = p
                          /\ refunds[f].status \in {"pending", "processed"}}

\* C4: for every payment the amounts of its pending and processed refunds
\* sum to at most the payment's amount.
C4_RefundBudget ==
  \A p \in DOMAIN payments : SumAmounts(LiveRefunds(p)) <= payments[p].amount

\* C5: a refund row exists only for a request that found its payment
\* completed or partial_refunded; a request that found it pending, failed or
\* refunded is answered 400 and creates no row.
C5_RefundOnlyWhenCompleted ==
  \A f \in RefReqs :
    /\ f \in DOMAIN refunds =>
         ref[f].seenStatus \in {"completed", "partial_refunded"}
    /\ (ref[f].pc = "done" /\ ref[f].seenStatus \in {"pending", "failed", "refunded"})
         => ref[f].response.status = 400 /\ f \notin DOMAIN refunds

\* the refund.created rows of subscription w
RefundCreatedRows(w) ==
  {e \in DOMAIN webhook_events :
     /\ webhook_events[e].webhook_id = w
     /\ webhook_events[e].event_type = "refund.created"}

\* C10: when a refund row is committed, one pending refund.created row per
\* active subscription to refund.created is committed with it, and the
\* request is answered 201 with the refund.
C10_RefundOutbox ==
  \A f \in DOMAIN refunds :
    /\ \A w \in Subscribed("refund.created") : RefundCreatedRows(w) # {}
    /\ ref[f].pc = "done" =>
         ref[f].response = Response(201,
            [id |-> f, payment_id |-> ref[f].paymentId,
             amount |-> ref[f].refundAmount, status |-> "pending"])

(* ------------------ refunds and errors: C11, C12, C13 ------------------ *)
ErrorStatus == {400, 404, 500}

\* C11: when POST /payments or POST /payments/:id/refund answers 400, 404
\* or 500, nothing the request wrote is committed: no payment row, no
\* idempotency record and no refund row of that request is in the store.
C11_ErrorLeavesStoreUnchanged ==
  /\ \A r \in Reqs :
       (req[r].pc = "done" /\ req[r].response.status \in ErrorStatus) =>
         /\ r \notin DOMAIN payments
         /\ \A x \in DOMAIN idempotency_keys : idempotency_keys[x].payment_id # r
  /\ \A f \in RefReqs :
       (ref[f].pc = "done" /\ ref[f].response.status \in ErrorStatus) =>
         f \notin DOMAIN refunds

\* the refund requests that carried client key k, with the same payment id
\* and amount, during which the store rejected no call
SameRefund(k) ==
  {f \in RefReqs : /\ ref[f].header = k /\ ref[f].pc # "idle" /\ ~ref[f].fault
                   /\ ref[f].paymentId = 1 /\ ref[f].amount = 6}

\* C12: refund requests carrying the same client Idempotency-Key create at
\* most one refund row, and the answered ones all carry the response of the
\* first (requests during which the store rejected a call set aside).
C12_RefundIdempotent ==
  \A k \in ClientKeys :
    /\ Cardinality(SameRefund(k) \cap DOMAIN refunds) <= 1
    /\ \A f, g \in SameRefund(k) :
         (ref[f].pc = "done" /\ ref[g].pc = "done")
           => ref[f].response.body = ref[g].response.body

\* C13: once a refund row is committed its payment is refunded when the
\* amounts of the payment's pending and processed refunds add up to the
\* payment's amount, and partial_refunded otherwise.
C13_RefundUpdatesPayment ==
  \A f \in DOMAIN refunds :
    LET p == refunds[f].payment_id IN
    payments[p].status =
      IF SumAmounts(LiveRefunds(p)) = payments[p].amount
      THEN "refunded" ELSE "partial_refunded"

(* -------------------- webhook dispatcher: C14..C20 --------------------- *)
Terminal(row) == row.status \in {"completed", "failed"}

\* C14: once an event row is completed or failed, no step changes its
\* status, retry_count, last_error or the time of its next_retry (the row
\* may go with its subscription).
C14_TerminalAbsorbing ==
  [][\A e \in DOMAIN webhook_events :
       (Terminal(webhook_events[e]) /\ e \in DOMAIN webhook_events') =>
         /\ webhook_events'[e].status = webhook_events[e].status
         /\ webhook_events'[e].retry_count = webhook_events[e].retry_count
         /\ webhook_events'[e].last_error = webhook_events[e].last_error
         /\ webhook_events'[e].next_retry \in
              {webhook_events[e].next_retry, Elapse(webhook_events[e].next_retry)}]_vars

\* C16: for every event the number of HTTP POSTs made for it, by all the
\* deliveries of its job, is at most max_retries, and so is retry_count.
C16_AttemptsBounded ==
  \A e \in DOMAIN webhook_events :
    /\ Http(e).posts <= webhook_events[e].max_retries
    /\ webhook_events[e].retry_count <= webhook_events[e].max_retries

\* the job of an event was delivered twice and both invocations made a POST
C16_Witness ==
  \E e \in DOMAIN webhook_events :
    /\ Http(e).posts = 2
    /\ webhookQueue[e].stalled = 1
    /\ webhook_events[e].retry_count = 1

\* C17: an event row is completed only if a POST made for the event was
\* answered 2xx.
C17_CompletedOnly2xx ==
  \A e \in DOMAIN webhook_events :
    webhook_events[e].status = "completed" => Http(e).ok2xx

\* a completed row, and an event with a failed POST that is not completed
C17_Witness ==
  /\ \E e \in DOMAIN webhook_events :
       webhook_events[e].status = "completed" /\ Http(e).posts = 1
  /\ \E e \in DOMAIN webhook_events :
       /\ webhook_events[e].status = "pending"
       /\ Http(e).posts >= 1 /\ ~Http(e).ok2xx
       /\ webhookQueue[e].state = "completed"

\* C18: against a receiver that fails every attempt, with the poller and the
\* consumer scheduled fairly, retry_count of every event goes up one by one
\* and the event eventually is failed with last_error set.
C18_RetryExhaustion ==
  /\ [][\A e \in DOMAIN webhook_events :
          webhook_events'[e].retry_count \in
            {webhook_events[e].retry_count, webhook_events[e].retry_count + 1}]_vars
  /\ <>(\A e \in DOMAIN webhook_events :
          /\ webhook_events[e].status = "failed"
          /\ webhook_events[e].last_error # "")

\* C19: a POST is made only for an event whose subscription was there and
\* active when the consumer looked it up; an invocation that found no
\* subscription marks the event failed.
C19_NoPostWhenInactive ==
  [][\A i \in Workers :
       /\ (inv[i].pc = "send" /\ inv'[i].pc \in {"complete", "catch"})
            => inv[i].seenActive
       /\ (inv[i].pc = "missing" /\ inv'[i].pc = "return"
             /\ inv[i].id \in DOMAIN webhook_events')
            => webhook_events'[inv[i].id].status = "failed"]_vars

\* C20: a failed attempt on a pending row with retry_count = n - 1, where
\* n < max_retries, leaves the row pending with retry_count = n and
\* next_retry 2^n * 60 seconds ahead.
C20_Backoff ==
  [][\A i \in Workers :
       ( /\ inv[i].pc = "catch" /\ inv'[i].pc = "return"
         /\ inv[i].id \in DOMAIN webhook_events
         /\ webhook_events[inv[i].id].status = "pending"
         /\ webhook_events[inv[i].id].retry_count + 1
              < webhook_events[inv[i].id].max_retries )
       => LET n == webhook_events[inv[i].id].retry_count + 1 IN
          /\ webhook_events'[inv[i].id].status = "pending"
          /\ webhook_events'[inv[i].id].retry_count = n
          /\ webhook_events'[inv[i].id].next_retry = Pow2(n) * 60]_vars

(* ------------------------ recovery: C21, C22 --------------------------- *)
\* an invocation of processWebhookEvent is about to POST event e
Attempting(e) == \E i \in Workers : inv[i].id = e /\ inv[i].pc = "send"

\* no invocation holds event e
Unattended(e) == \A i \in Workers : inv[i].id # e

\* C21: every pending event that is due and not being handled is eventually
\* enqueued and attempted again.
C21_DueEventuallyAttempted ==
  \A e \in DispatchEvents :
    (Due(webhook_events[e]) /\ Unattended(e)) ~> Attempting(e)

\* C22: every created payment eventually leaves pending, also when an
\* attempt fails before its COMMIT (the job is then delivered again).
C22_PaymentLeavesPending ==
  \A p \in Paid : <>(payments[p].status # "pending")

(* ----------------------- intake rules: C23, C24 ------------------------ *)
\* C23: a request whose key has a stored record with expires_at in the past
\* is not answered by the middleware with the stored response.
C23_ExpiredNotReplayed ==
  [][\A r \in Reqs :
       ( /\ req[r].pc = "middleware" /\ req'[r].pc = "done"
         /\ req[r].header \in DOMAIN idempotency_keys )
       => idempotency_keys[req[r].header].expires_at # "past"]_vars

\* the bodies the validation is to reject
Malformed(b) ==
  b.amount <= 0 \/ b.customer_email = "" \/ Len(b.currency) # 3

\* C24: a POST /payments whose amount is missing or <= 0, whose
\* customer_email is empty or whose currency is not 3 characters long is
\* answered 400 and creates no payment row, idempotency record or job.
C24_ValidationRejects ==
  \A r \in Reqs :
    (req[r].pc = "done" /\ Malformed(req[r].body) /\ ~req[r].fault
       /\ req[r].response.status # 200) =>
      /\ req[r].response.status = 400
      /\ r \notin DOMAIN payments
      /\ r \notin DOMAIN paymentQueue
      /\ \A x \in DOMAIN idempotency_keys : idempotency_keys[x].payment_id # r

(* ------------------------- subscriptions: C25 -------------------------- *)
\* a response body carries a secret
Reveals(body) == "secret" \in DOMAIN body

\* C25: the secret of a subscription is in the response to the POST that
\* created it and in no later response: not in GET /webhooks, not in
\* GET /webhooks/:id, not in the response to an update.
C25_SecretOnlyOnCreate ==
  [][/\ \A w \in DOMAIN webhooks' : ~Reveals(GetWebhookResponse(w)')
     /\ \A w \in (DOMAIN webhooks) \cap (DOMAIN webhooks') :
          webhooks'[w] # webhooks[w] => ~Reveals(PatchWebhookResponse(w)')]_vars

(* ------------------------- signatures: C26, C27 ------------------------ *)
\* the receiver verifies what the sender signed, with the sender's secret
Untouched(c) ==
  /\ c.tamper = "none"
  /\ payloadString(c.payload) = payloadString(c.signed)
  /\ c.secret = c.key

\* C26: within the tolerance, verifyWebhookSignature returns true for the
\* signature generateSignature made for the same payload, secret and
\* timestamp, and returns false, without raising, when the payload, the
\* signature or the secret was changed.
C26_SignatureRoundTrip ==
  (call.result \notin {"none", "pending"}
     /\ Abs(call.currentTime - call.timestamp) <= tolerance) =>
    call.result = IF Untouched(call) THEN "true" ELSE "false"

\* C27: verifyWebhookSignature returns false whenever the timestamp is more
\* than the tolerance away from the current time, also for the correct
\* signature.
C27_StaleTimestampRejected ==
  (call.result \notin {"none", "pending"}
     /\ Abs(call.currentTime - call.timestamp) > tolerance) =>
    call.result = "false"

\* the correct signature, verified 6 minutes after it was made
C27_Witness ==
  /\ call.result = "false"
  /\ Untouched(call)
  /\ call.currentTime - call.timestamp = 360000

(* ------------------------- payment jobs: C28 --------------------------- *)
\* the jobs of the payments queue that are for payment p
JobsFor(p) == {j \in DOMAIN paymentQueue : paymentQueue[j].data.paymentId = p}

\* C28: a request answered with 201 has exactly one job in the payments
\* queue, under the payment's id; adding a job under an id the queue knows
\* changes nothing; no payment has more than one job.
C28_OneJobPerPayment ==
  /\ \A r \in Reqs : req[r].response.status = 201 =>
       /\ r \in DOMAIN paymentQueue
       /\ JobsFor(r) = {r}
  /\ \A j \in DOMAIN paymentQueue :
       QueueAdd(paymentQueue, j, paymentQueue[j].data) = paymentQueue
  /\ \A p \in Reqs : Cardinality(JobsFor(p)) <= 1

\* two payments created, each with its job waiting
C28_Witness ==
  /\ \A r \in Reqs : req[r].response.status = 201
  /\ \A r \in Reqs : r \in DOMAIN paymentQueue /\ paymentQueue[r].state = "waiting"

(* ----------------------------- poller: C29 ----------------------------- *)
\* C29: the rows a tick passes to webhookQueue.add are, at the tick, pending
\* with next_retry null or not after now (no row whose next_retry is ahead is
\* among them), and a job that appears in the webhooks queue is for such a
\* row.
C29_OnlyDueEnqueued ==
  [][/\ Poll => \A e \in polled'.rows :
          /\ e \in DOMAIN webhook_events
          /\ webhook_events[e].status = "pending"
          /\ webhook_events[e].next_retry = Null
               \/ webhook_events[e].next_retry <= 0
     /\ \A e \in (DOMAIN webhookQueue') \ (DOMAIN webhookQueue) :
          /\ e \in DOMAIN webhook_events
          /\ webhook_events[e].status = "pending"
          /\ webhook_events[e].next_retry = Null
               \/ webhook_events[e].next_retry <= 0]_vars

\* a tick that enqueued a due row and left a row waiting for its next_retry
C29_Witness ==
  /\ polled.rows # {}
  /\ polled.notDue # {}
  /\ polled.rows \cap polled.notDue = {}

(* ------------------------ one worker per event: C30 -------------------- *)
\* the workers that are processing event row e
Processing(e) == {i \in Workers : inv[i].pc # "idle" /\ inv[i].id = e}

C31_DefaultIsRemaining ==
  [][\A f \in (DOMAIN refunds') \ (DOMAIN refunds) :
       (/\ ref[f].amount = 0
        /\ \A g \in LiveRefunds(ref[f].paymentId) : refunds[g].amount > 0) =>
         refunds'[f].amount =
           payments[ref[f].paymentId].amount
             - SumAmounts(LiveRefunds(ref[f].paymentId))]_vars

\* C32: every refund row has an amount above 0, and a request with a
\* negative amount is answered 400 and creates no row.
C32_RefundAmountPositive ==
  /\ \A f \in DOMAIN refunds : refunds[f].amount > 0
  /\ \A f \in RefReqs :
       (ref[f].amount < 0 /\ ref[f].pc = "done" /\ ~ref[f].fault
          /\ ref[f].seenStatus # "")
         => ref[f].response.status = 400 /\ f \notin DOMAIN refunds

(* ------------------- the failure outcome's job: C33 -------------------- *)
\* C33: an invocation of processPayment whose outcome is failure, once it
\* has committed status failed and the payment.failed rows, ends with its
\* job completed in the queue, not failed.
C33_FailureOutcomeAcknowledged ==
  [][\A a \in Attempts :
       (/\ att[a].pc = "committed"
        /\ att'[a].pc = "returned"
        /\ ~att[a].isSuccess) =>
         paymentQueue'[att[a].paymentId].state = "completed"]_vars

(* --------------------- sendWebhookWithRetry: C34 ----------------------- *)
\* the waits after the first n failures: 2^1, ..., 2^n seconds
Backoffs(n) == [k \in 1..n |-> Pow2(k)]

\* every call of sendWebhookWithRetry ends, by a return or a throw
RetryLoopEnds == <>(loop.pc = "done")

\* C34: a call makes at most maxRetries sends; when it has ended it has
\* returned success = true with retryCount the number of failed sends before
\* the successful one, or success = false with retryCount = maxRetries after
\* maxRetries failed sends; it has waited 2^k seconds after the k-th failed
\* send, except after the last of maxRetries.
C34_RetryLoop ==
  /\ loop.sends <= loop.maxRetries
  /\ loop.pc = "done" =>
       /\ loop.result.kind = "returned"
       /\ IF loop.result.success
          THEN /\ loop.result.retryCount = loop.sends - 1
               /\ loop.waits = Backoffs(loop.sends - 1)
          ELSE /\ loop.result.retryCount = loop.maxRetries
               /\ loop.sends = loop.maxRetries
               /\ loop.waits = Backoffs(loop.maxRetries - 1)

(* ------------------ jobs and rows of lost payments: C35 ---------------- *)
\* C35: once the request that enqueued it has ended, every job of the
\* payments queue is for a committed payment row, and every
\* payment.completed or payment.failed row of webhook_events refers to a
\* committed payment row.
C35_NoOrphans ==
  /\ \A j \in DOMAIN paymentQueue :
       (j \in Reqs /\ req[j].pc = "done") =>
          paymentQueue[j].data.paymentId \in DOMAIN payments
  /\ \A e \in DOMAIN webhook_events :
       webhook_events[e].event_type \in {"payment.completed", "payment.failed"}
         => webhook_events[e].payment_id \in DOMAIN payments

(* ----------------------- open transactions: C36 ------------------------ *)
\* C36: when a POST /payments request has ended and its connection is back
\* in the pool, the transaction it opened with BEGIN has been closed by
\* COMMIT or ROLLBACK.
C36_TransactionClosed ==
  \A r \in Reqs : req[r].pc = "done" => ~req[r].txOpen

(* ------------------ keys shared between operations: C37 ---------------- *)
\* the responses POST /payments has stored or returned for a created payment
PaymentCreationBodies ==
  {idempotency_keys[k].response : k \in DOMAIN idempotency_keys}
    \cup {req[r].response.body : r \in {q \in Reqs : req[q].response.status = 201}}

\* C37: no POST /payments/{id}/refund request is answered with the response
\* of a payment creation.
C37_ReplayOfSameOperation ==
  \A f \in RefReqs :
    ref[f].response # NoResponse =>
      ref[f].response.body \notin PaymentCreationBodies

(* --------------------- secrets in responses: C38 ----------------------- *)
\* C38: the responses of the routes other than the creating POST /webhooks
\* do not contain a subscription's secret: not the body of a
\* PATCH /webhooks/{id} that changed the subscription, not the body of
\* GET /webhooks/{id}/events nor any event in it, not the body of DELETE.
C38_NoSecretAfterCreate ==
  [][/\ \A w \in (DOMAIN webhooks) \cap (DOMAIN webhooks') :
          webhooks'[w] # webhooks[w] => ~Reveals(PatchWebhookResponse(w)')
     /\ \A w \in DOMAIN webhooks' :
          /\ ~Reveals(GetEventsResponse(w)')
          /\ \A row \in GetEventsResponse(w)'.events : ~Reveals(row)
     /\ ~Reveals(DeleteWebhookResponse)]_vars

(* ------------------ the job's snapshot of the row: C39, C40 ------------ *)
\* C39: the retry_count of an event row never goes down, and an invocation
\* that records a failed attempt leaves it exactly 1 above the value the row
\* had (so two invocations working from the same snapshot do not record the
\* same retry_count).
C39_RetryCountAdvances ==
  [][\A e \in (DOMAIN webhook_events) \cap (DOMAIN webhook_events') :
       /\ webhook_events'[e].retry_count >= webhook_events[e].retry_count
       /\ \A i \in Workers :
            (inv[i].pc = "catch" /\ inv'[i].pc = "return" /\ inv[i].id = e) =>
              webhook_events'[e].retry_count
                = webhook_events[e].retry_count + 1]_vars

\* C40: no HTTP POST is made for an event whose row is completed or failed.
C40_NoPostWhenTerminal ==
  [][\A e \in DOMAIN webhook_events :
       Http(e)'.posts > Http(e).posts =>
         webhook_events[e].status \notin {"completed", "failed"}]_vars

====
